---------------------------- MODULE Spec2Model ----------------------------
(***************************************************************************)
(* Model of src/TelegramBot/main.py: the TelegramPoller polling loop.      *)
(*                                                                         *)
(* One TelegramPoller instance runs one coroutine (run).  The model follows *)
(* that coroutine from one suspension point to the next: every await (and  *)
(* the blocking SDK call) is one action, whose outcome is chosen by the    *)
(* environment (the Telegram HTTP API, the serving endpoint).              *)
(*                                                                         *)
(* Program state: last_update_id, the locals of run (updates, the loop     *)
(* position idx, update), the text argument of the sendMessage call that   *)
(* process_update is about to make, the request parameter offset, the      *)
(* position pc and closed (the client).  History variables (not read by    *)
(* the program): before, result, redelivered, calls, replies, raised,      *)
(* newest, increasing, polls, slept, transport, fetched, dispatched, lost, *)
(* cut, restarted, seen_before.                                            *)
(*                                                                         *)
(* The transport is not trusted: a getUpdates answer may carry any update  *)
(* ids, also ids below the requested offset.  increasing records whether   *)
(* the ids have arrived in increasing order so far, transport whether the  *)
(* answers have respected the offset of their request.                     *)
(*                                                                         *)
(* Exceptions are those of class Exception.  get_updates and               *)
(* process_update catch all of them, so the handler of run at lines        *)
(* 257-259 is never entered by one and has no action here.                 *)
(*                                                                         *)
(* Spec is a run that no signal interrupts.  SpecInt adds the interrupt    *)
(* (asyncio.CancelledError at an await, KeyboardInterrupt where run is     *)
(* executing) and the end of run; SpecRestart adds a second process.       *)
(***************************************************************************)
EXTENDS Integers, Sequences, FiniteSets, TLC

(***************************************************************************)
(* Bounds of the model.                                                    *)
(***************************************************************************)
MaxId == 3        \* update ids are drawn from 1..MaxId

MaxBatch == 2     \* a getUpdates response carries at most MaxBatch updates

MaxPolls == 2     \* get_updates is called at most MaxPolls times in a run

\* line 27: the default of POLL_INTERVAL, in seconds
POLL_INTERVAL == 2

\* line 259: asyncio.sleep(5) in the "except Exception" handler of run
ErrorSleep == 5

(***************************************************************************)
(* Strings.  A text is a sequence of characters, so that str.startswith is *)
(* computed and not assumed.                                               *)
(***************************************************************************)
S_start == <<"/", "s", "t", "a", "r", "t">>

S_help == <<"/", "h", "e", "l", "p">>

S_status == <<"/", "s", "t", "a", "t", "u", "s">>

S_hello == <<"h", "e", "l", "l", "o">>

\* str.startswith(prefix)
StartsWith(s, p) ==
    /\ Len(s) >= Len(p)
    /\ SubSeq(s, 1, Len(p)) = p

\* The texts a user sends: the commands, a command with trailing text, plain
\* text, text that names a command later than its first character, and a
\* proper prefix of /start.
Texts ==
    { S_start, S_start \o <<"x">>, S_help,
      S_status, S_hello, <<" ">> \o S_help,
      <<"/", "s", "t", "a", "r">> }

Chats == {"C1", "C2"}

Ids == 1..MaxId

(***************************************************************************)
(* An update as process_update reads it.  shape says which keys the dict   *)
(* carries:                                                                *)
(*   "nomsg"   no "message" key                                            *)
(*   "notext"  a message without "text"                                    *)
(*   "nochat"  a message with "text" but no "chat" (malformed)             *)
(*   "badtext" a message whose "text" is not a str (malformed)             *)
(*   "text"    a message with chat.id and a str text                       *)
(***************************************************************************)
NoChat == "none"

Payloads ==
    {[shape |-> s, chat |-> NoChat, text |-> <<>>] : s \in {"nomsg", "notext", "nochat"}}
    \cup {[shape |-> "badtext", chat |-> c, text |-> <<>>] : c \in Chats}
    \cup {[shape |-> "text", chat |-> c, text |-> t] : c \in Chats, t \in Texts}

NoUpdate == [update_id |-> 0, shape |-> "none", chat |-> NoChat, text |-> <<>>]

MkUpdate(id, p) ==
    [update_id |-> id, shape |-> p.shape, chat |-> p.chat, text |-> p.text]

(***************************************************************************)
(* Message bodies.  The f-strings and literals of the source are kept as   *)
(* records that name the literal and carry the interpolated values.        *)
(***************************************************************************)
NoText == [kind |-> "none", val |-> "", num |-> 0]

WelcomeText == [kind |-> "welcome", val |-> "", num |-> 0]

HelpText == [kind |-> "help", val |-> "", num |-> 0]

\* "Bot is running / Endpoint / Mode: Polling / Last update ID: {n}"
StatusText(n) == [kind |-> "status", val |-> "Polling", num |-> n]

\* "Sorry, I encountered an error processing your message. Please try again."
GenericErrorText == [kind |-> "generic_error", val |-> "", num |-> 0]

\* "I couldn't generate a response. Please try again."
NoChoiceText == [kind |-> "no_choice", val |-> "", num |-> 0]

\* f"Sorry, I encountered an error: {str(e)}"
SorryText(reason) == [kind |-> "sorry", val |-> reason, num |-> 0]

\* the model's answer, passed on as it is
ModelText(t) == [kind |-> "model", val |-> t, num |-> 0]

\* what the serving endpoint answered (the content, or the text of the
\* exception), as the history of calls records it
Answer(q) == [kind |-> "answer", val |-> q.val, num |-> 0]


(***************************************************************************)
(* Outcomes the environment chooses.                                       *)
(***************************************************************************)
\* client.post(sendMessage): "ok" is a 2xx answer with a JSON body,
\* "http_error" any httpx.HTTPError (no connection, non-2xx status),
\* "raises" an exception that is not an httpx.HTTPError (a 2xx answer whose
\* body is not JSON makes response.json() raise ValueError).
SendOutcomes == {"ok", "http_error", "raises"}

\* client.post(sendChatAction)
ActionOutcomes == {"ok", "fails"}

\* w.serving_endpoints.query: a first choice with str content, a first
\* choice whose content is None, no choices, or an exception.
GenTexts == {"hi there", ""}

GenReasons == {"timeout"}

QueryOutcomes ==
    {[res |-> "content", val |-> t] : t \in GenTexts}
    \cup {[res |-> "null_content", val |-> ""], [res |-> "no_choices", val |-> ""]}
    \cup {[res |-> "raises", val |-> r] : r \in GenReasons}

\* getUpdates: {"ok": true, "result": [...]}, {"ok": false}, an exception of
\* client.get / raise_for_status / response.json, or an "ok" answer one of
\* whose updates has no "update_id".
Batches == UNION {[1..n -> Ids] : n \in 0..MaxBatch}

FetchOutcomes ==
    {[res |-> "ok", ids |-> b] : b \in Batches}
    \cup {[res |-> r, ids |-> <<>>] : r \in {"not_ok", "http_error", "malformed"}}

(***************************************************************************)
(* get_updates, the pure parts.                                            *)
(***************************************************************************)
\* line 122: "offset": self.last_update_id + 1
M_RequestOffset_same(cursor) == cursor

RequestOffset(cursor) == cursor + 1

RECURSIVE MaxOf(_)
MaxOf(S) ==
    IF S = {} THEN 0
    ELSE LET x == CHOOSE y \in S : TRUE
             m == MaxOf(S \ {x})
         IN IF x > m THEN x ELSE m

Range(f) == {f[i] : i \in DOMAIN f}

\* line 136: max(update["update_id"] for update in updates)
M_MaxUpdateId_last(ids) == ids[Len(ids)]

MaxUpdateId(ids) == MaxOf(Range(ids))

\* lines 132-144: the value of last_update_id when get_updates returns
M_NewCursor_lost_on_failure(cursor, r) ==
    IF r.res = "ok"
    THEN IF r.ids # <<>> THEN MaxUpdateId(r.ids) ELSE cursor
    ELSE 0

NewCursor(cursor, r) ==
    IF r.res = "ok" /\ r.ids # <<>> THEN MaxUpdateId(r.ids) ELSE cursor

\* lines 137, 140, 144: the list get_updates returns
Returned(r) == IF r.res = "ok" THEN r.ids ELSE <<>>

\* lines 242-252: where run goes when get_updates has returned: into the
\* for loop when the list is not empty, to line 252 otherwise
M_AfterPoll_error_ends_run(r) ==
    IF r.res = "http_error" THEN "returned"
    ELSE IF Returned(r) # <<>> THEN "for" ELSE "sleep"

AfterPoll(r) == IF Returned(r) # <<>> THEN "for" ELSE "sleep"

(***************************************************************************)
(* process_update, the pure parts.                                         *)
(***************************************************************************)
\* lines 172, 179, 190: the chain of startswith tests
M_Classify_nostatus(text) ==
    IF StartsWith(text, S_start) THEN "start"
    ELSE IF StartsWith(text, S_help) THEN "help"
    ELSE "free"

Classify(text) ==
    IF StartsWith(text, S_start) THEN "start"
    ELSE IF StartsWith(text, S_help) THEN "help"
    ELSE IF StartsWith(text, S_status) THEN "status"
    ELSE "free"

\* lines 175, 182-186, 193-196: the text of a command's reply
M_CannedReply_next_offset(cmd, cursor) ==
    IF cmd = "start" THEN WelcomeText
    ELSE IF cmd = "help" THEN HelpText
    ELSE StatusText(cursor + 1)

CannedReply(cmd, cursor) ==
    IF cmd = "start" THEN WelcomeText
    ELSE IF cmd = "help" THEN HelpText
    ELSE StatusText(cursor)

\* lines 53-77: what send_to_databricks_endpoint returns.  A None content
\* makes result[:100] raise TypeError inside the try.
M_GenResult_no_reason(q) ==
    IF q.res = "content" THEN ModelText(q.val)
    ELSE IF q.res = "null_content" THEN SorryText("TypeError")
    ELSE NoChoiceText

M_GenResult_logged_prefix(q) ==
    IF q.res = "content" THEN ModelText(IF q.val = "" THEN "" ELSE "hi")
    ELSE IF q.res = "null_content" THEN SorryText("TypeError")
    ELSE IF q.res = "no_choices" THEN NoChoiceText
    ELSE SorryText(q.val)

GenResult(q) ==
    IF q.res = "content" THEN ModelText(q.val)
    ELSE IF q.res = "null_content" THEN SorryText("TypeError")
    ELSE IF q.res = "no_choices" THEN NoChoiceText
    ELSE SorryText(q.val)

\* lines 108-111: send_chat_action catches every Exception and returns
\* None, so its caller sees the same thing whatever the call did
Swallowed(outcome) == "unseen"

\* lines 97-103: send_telegram_message catches httpx.HTTPError only
SendRaises(outcome) == outcome = "raises"

(***************************************************************************)
(* State.                                                                  *)
(***************************************************************************)
VARIABLES
    last_update_id, \* self.last_update_id
    pc,             \* where run is suspended
    offset,         \* params["offset"] of the latest getUpdates request
    updates,        \* run's local updates: the update ids of the latest batch
    idx,            \* how many updates of the batch the for loop has taken
    update,         \* the update process_update is handling
    text,           \* the text argument of the pending sendMessage call
    before,         \* history: last_update_id when get_updates was called
    result,         \* history: how the latest get_updates call ended
    redelivered,    \* history: the latest fetch returned the same non-empty
                    \* list as the fetch before it
    calls,          \* history: outbound calls made for the current update
    replies,        \* history: update ids of the sendMessage calls, in call
                    \* order, kept as long as the stream is increasing
    raised,         \* history: handling an update of the latest batch raised
                    \* an exception
    newest,         \* history: the greatest update id returned so far
    increasing,     \* history: every update id returned so far was greater
                    \* than all update ids returned before it
    polls,          \* history: number of get_updates calls
    slept,          \* history: the argument of the latest asyncio.sleep
    transport,      \* history: "stale" once a getUpdates answer has carried
                    \* an id below the offset of its request, "repeats"
                    \* once an answer has listed an id twice, else "exact"
    fetched,        \* history: the update ids get_updates has returned, in
                    \* order, kept until an answer is stale
    dispatched,     \* history: the update ids passed to process_update, in
                    \* order, kept until an answer is stale
    lost,           \* history: the greatest id of an update of the latest
                    \* batch whose handling failed
    closed,         \* the client is closed: client.aclose() has been executed
    cut,            \* history: where run was when an interrupt ended its loop
    restarted,      \* history: this is a second process
    seen_before     \* history: the greatest update id returned to the first process

vars ==
    <<last_update_id, pc, offset, updates, idx, update, text, before, result,
      redelivered, calls, replies, raised, newest, increasing, polls, slept,
      transport, fetched, dispatched, lost, closed, cut, restarted,
      seen_before>>

\* The payload of an update is read by process_update only, so the model
\* keeps the ids of a batch in updates and draws the payload of an update
\* when the for loop binds it.

\* lines 39-41 (__init__) and the entry of run
Init ==
    /\ last_update_id = 0
    /\ pc = "start"
    /\ offset = 0
    /\ updates = <<>>
    /\ idx = 0
    /\ update = NoUpdate
    /\ text = NoText
    /\ before = 0
    /\ result = "none"
    /\ redelivered = FALSE
    /\ calls = <<>>
    /\ replies = <<>>
    /\ raised = FALSE
    /\ newest = 0
    /\ increasing = TRUE
    /\ polls = 0
    /\ slept = 0
    /\ transport = "exact"
    /\ fetched = <<>>
    /\ dispatched = <<>>
    /\ lost = 0
    /\ closed = FALSE
    /\ cut = "none"
    /\ restarted = FALSE
    /\ seen_before = 0

Call(op, chat, body, outcome) ==
    [op |-> op, chat |-> chat, text |-> body, result |-> outcome]

\* ids, in this order, are all greater than seen and increase
Increases(ids, seen) ==
    /\ \A i \in 1..Len(ids) : ids[i] > seen
    /\ \A i, j \in 1..Len(ids) : i < j => ids[i] < ids[j]

\* the greater of two update ids
Later(a, b) == IF a >= b THEN a ELSE b

\* no update id occurs twice in ids
NoRepeat(ids) == \A i, j \in 1..Len(ids) : i # j => ids[i] # ids[j]

\* the transport as seen so far, after an answer listing ids to a request
\* for asked: "stale" once an answer has carried an id below the offset of
\* its request, "repeats" once an answer has listed an id twice, "exact"
\* otherwise
Judge(sofar, ids, asked) ==
    IF sofar = "stale" \/ \E i \in 1..Len(ids) : ids[i] < asked THEN "stale"
    ELSE IF sofar = "repeats" \/ ~NoRepeat(ids) THEN "repeats"
    ELSE "exact"

(***************************************************************************)
(* run                                                                     *)
(***************************************************************************)
\* lines 232-237: deleteWebhook, every failure swallowed
run_delete_webhook ==
    /\ pc = "start"
    /\ pc' = "loop"
    /\ UNCHANGED <<last_update_id, offset, updates, idx, update, text,
                   result, redelivered, calls, replies, newest, increasing,
                   polls, before, raised, slept, transport, fetched,
                   dispatched, lost, closed, cut, restarted, seen_before>>

\* lines 242, 120-128: get_updates builds params and awaits client.get
get_updates_request ==
    /\ pc = "loop"
    /\ polls < MaxPolls
    /\ offset' = RequestOffset(last_update_id)
    /\ before' = last_update_id
    /\ polls' = polls + 1
    /\ pc' = "polling"
    /\ UNCHANGED <<last_update_id, updates, idx, update, text, result,
                   redelivered, calls, replies, newest, increasing, raised,
                   slept, transport, fetched, dispatched, lost, closed, cut,
                   restarted, seen_before>>

\* lines 128-144 and 242-244: the answer arrives, get_updates returns and
\* run tests "if updates"
get_updates_response ==
    /\ pc = "polling"
    /\ \E r \in FetchOutcomes :
        /\ last_update_id' = NewCursor(last_update_id, r)
        /\ updates' = Returned(r)
        /\ result' = r.res
        /\ newest' = MaxOf(Range(r.ids) \cup {newest})
        /\ increasing' = (increasing /\ Increases(r.ids, newest))
        /\ replies' = IF increasing' THEN replies ELSE <<>>
        /\ redelivered' = (updates # <<>> /\ Returned(r) = updates)
        /\ pc' = AfterPoll(r)
        /\ transport' = Judge(transport, r.ids, offset)
        /\ fetched' = IF transport' = "stale" THEN <<>> ELSE fetched \o Returned(r)
        /\ dispatched' = IF transport' = "stale" THEN <<>> ELSE dispatched
    /\ idx' = 0
    /\ update' = NoUpdate
    /\ calls' = <<>>
    /\ text' = NoText
    /\ raised' = FALSE
    /\ lost' = 0
    /\ UNCHANGED <<offset, polls, before, slept, closed, cut, restarted,
                   seen_before>>

\* line 248: for update in updates
M_NextUpdateId_reversed(ids, taken) == ids[Len(ids) - taken]

NextUpdateId(ids, taken) == ids[taken + 1]

\* lines 153-198 and 211-218: process_update from its entry to its first
\* await or to its return: where it stops, and the text it is about to send
M_FirstAwait_no_text_test(u, cursor) ==
    IF u.shape = "nomsg" THEN [pc |-> "for", text |-> NoText]
    ELSE [pc |-> "except", text |-> GenericErrorText]

FirstAwait(u, cursor) ==
    CASE u.shape \in {"nomsg", "notext"} ->
            \* lines 155-163: return
            [pc |-> "for", text |-> NoText]
      [] u.shape = "nochat" ->
            \* line 165 raises KeyError; in the handler line 216 raises it
            \* again and lines 219-220 swallow it
            [pc |-> "for", text |-> NoText]
      [] u.shape = "badtext" ->
            \* line 172 raises AttributeError; the handler awaits line 215
            [pc |-> "except", text |-> GenericErrorText]
      [] u.shape = "text" /\ Classify(u.text) # "free" ->
            \* lines 172-198: a command; awaits send_telegram_message
            [pc |-> "send", text |-> CannedReply(Classify(u.text), cursor)]
      [] OTHER ->
            \* line 201: awaits send_chat_action
            [pc |-> "typing", text |-> NoText]

\* lines 248-249 and 153-198: the for loop binds the next update and calls
\* process_update, which runs to its first await or to its return
process_update_enter ==
    /\ pc = "for"
    /\ idx < Len(updates)
    /\ idx' = idx + 1
    /\ calls' = <<>>
    /\ \E p \in Payloads :
        /\ update' = MkUpdate(NextUpdateId(updates, idx), p)
        /\ pc' = FirstAwait(update', last_update_id).pc
        /\ text' = FirstAwait(update', last_update_id).text
        /\ raised' = (raised \/ p.shape \in {"nochat", "badtext"})
        /\ lost' = IF p.shape \in {"nochat", "badtext"}
                   THEN Later(lost, update'.update_id) ELSE lost
    /\ dispatched' = IF transport = "stale" THEN dispatched
                     ELSE Append(dispatched, NextUpdateId(updates, idx))
    /\ UNCHANGED <<last_update_id, offset, updates, result, redelivered,
                   replies, newest, increasing, polls, before, slept,
                   transport, fetched, closed, cut, restarted, seen_before>>

\* lines 105-111 (called at line 201): every exception is swallowed
send_chat_action ==
    /\ pc = "typing"
    /\ \E o \in ActionOutcomes :
        calls' = Append(calls, Call("sendChatAction", update.chat, NoText, Swallowed(o)))
    /\ pc' = "query"
    /\ UNCHANGED <<last_update_id, offset, updates, idx, update, text,
                   result, redelivered, replies, newest, increasing, polls,
                   before, raised, slept, transport, fetched, dispatched,
                   lost, closed, cut, restarted, seen_before>>

\* lines 43-77 (called at line 204)
send_to_databricks_endpoint ==
    /\ pc = "query"
    /\ \E q \in QueryOutcomes :
        /\ calls' = Append(calls, Call("query", NoChat, Answer(q), q.res))
        /\ text' = GenResult(q)
        /\ lost' = IF q.res = "content" THEN lost
                   ELSE Later(lost, update.update_id)
    /\ pc' = "send"
    /\ UNCHANGED <<last_update_id, offset, updates, idx, update, result,
                   redelivered, replies, newest, increasing, polls, before,
                   raised, slept, transport, fetched, dispatched, closed,
                   cut, restarted, seen_before>>

Replied(id) == IF increasing THEN Append(replies, id) ELSE replies

\* lines 79-103 (called at lines 173, 180, 191, 207)
send_telegram_message ==
    /\ pc = "send"
    /\ \E o \in SendOutcomes :
        /\ calls' = Append(calls, Call("sendMessage", update.chat, text, o))
        /\ raised' = (raised \/ SendRaises(o))
        /\ lost' = IF o = "ok" THEN lost ELSE Later(lost, update.update_id)
        /\ IF SendRaises(o)
           THEN /\ pc' = "except"
                /\ text' = GenericErrorText
           ELSE /\ pc' = "for"
                /\ text' = NoText
    /\ replies' = Replied(update.update_id)
    /\ UNCHANGED <<last_update_id, offset, updates, idx, update, result,
                   redelivered, newest, increasing, polls, before, slept,
                   transport, fetched, dispatched, closed, cut, restarted,
                   seen_before>>

\* lines 219-220: "except: pass" around the fallback sendMessage; run
\* goes on with its for loop whatever the call did
M_AfterFallback_escapes(outcome) == IF outcome = "raises" THEN "loop" ELSE "for"

AfterFallback(outcome) == "for"

\* lines 211-220: the handler of process_update
process_update_except ==
    /\ pc = "except"
    /\ \E o \in SendOutcomes :
        /\ calls' = Append(calls, Call("sendMessage", update.chat, text, o))
        /\ pc' = AfterFallback(o)
    /\ replies' = Replied(update.update_id)
    /\ text' = NoText
    /\ UNCHANGED <<last_update_id, offset, updates, idx, update, result,
                   redelivered, newest, increasing, polls, before, raised,
                   slept, transport, fetched, dispatched, lost, closed, cut,
                   restarted, seen_before>>

\* line 248: the for loop is exhausted (update is not read again: the model
\* forgets it and the calls made for it)
run_for_done ==
    /\ pc = "for"
    /\ idx = Len(updates)
    /\ pc' = "sleep"
    /\ update' = NoUpdate
    /\ calls' = <<>>
    /\ UNCHANGED <<last_update_id, offset, updates, idx, text, result,
                   redelivered, replies, newest, increasing, polls, before,
                   raised, slept, transport, fetched, dispatched, lost,
                   closed, cut, restarted, seen_before>>

\* line 252: asyncio.sleep(POLL_INTERVAL), reached after every get_updates
\* call that returns.  The asyncio.sleep(5) of line 259 is in the handler
\* of "except Exception" of run: get_updates (line 142) and process_update
\* (lines 211, 219) catch every Exception themselves, so no step of run
\* enters it and the model has no action for it.
run_sleep ==
    /\ pc = "sleep"
    /\ slept' = POLL_INTERVAL
    /\ pc' = "loop"
    /\ UNCHANGED <<last_update_id, offset, updates, idx, update, text,
                   result, redelivered, calls, replies, newest, increasing,
                   polls, before, raised, transport, fetched, dispatched,
                   lost, closed, cut, restarted, seen_before>>

(***************************************************************************)
(* Interrupts.  asyncio.run turns SIGINT into a cancellation of the main   *)
(* task: asyncio.CancelledError is raised at the await where run, or a     *)
(* coroutine it awaits, is suspended.  It is a BaseException, so "except   *)
(* Exception" and "except httpx.HTTPError" let it pass and "except:"       *)
(* catches it.  Where the interpreter raises KeyboardInterrupt in the main *)
(* thread instead (asyncio.run before Python 3.11), the exception is       *)
(* raised inside run when run is executing and not suspended: in the       *)
(* blocking call w.serving_endpoints.query and in the statements between   *)
(* two awaits.  The model lets one interrupt end the loop.                 *)
(***************************************************************************)
\* lines 240-259: CancelledError at the await of get_updates (client.get),
\* send_chat_action, send_telegram_message (client.post) or asyncio.sleep
\* is caught by no handler on its way: it leaves run at line 240-252
\* without reaching line 261
CancelledAt == {"polling", "typing", "send", "sleep"}

\* lines 254-256: KeyboardInterrupt raised while run executes line 204 (the
\* blocking query), the for statement or the head of the while loop is
\* caught by "except KeyboardInterrupt" and breaks the loop
KeyboardInterruptAt == {"query", "for", "loop"}

\* lines 236-237 and 219-220: "except:" swallows the exception raised at
\* the await of deleteWebhook and of the fallback sendMessage; run goes on
SwallowedAt == {"start", "except"}

AfterSwallowed(at) == IF at = "start" THEN "loop" ELSE "for"

interrupt_cancelled ==
    /\ cut = "none"
    /\ pc \in CancelledAt
    /\ cut' = pc
    /\ pc' = "cancelled"
    /\ update' = NoUpdate
    /\ calls' = <<>>
    /\ text' = NoText
    /\ UNCHANGED <<last_update_id, offset, updates, idx, before, result,
                   redelivered, replies, raised, newest, increasing, polls,
                   slept, transport, fetched, dispatched, lost, closed,
                   restarted, seen_before>>

interrupt_keyboard ==
    /\ cut = "none"
    /\ pc \in KeyboardInterruptAt
    /\ cut' = pc
    /\ pc' = "closing"
    /\ update' = NoUpdate
    /\ calls' = <<>>
    /\ text' = NoText
    /\ UNCHANGED <<last_update_id, offset, updates, idx, before, result,
                   redelivered, replies, raised, newest, increasing, polls,
                   slept, transport, fetched, dispatched, lost, closed,
                   restarted, seen_before>>

interrupt_swallowed ==
    /\ cut = "none"
    /\ pc \in SwallowedAt
    /\ pc' = AfterSwallowed(pc)
    /\ text' = NoText
    /\ UNCHANGED <<last_update_id, offset, updates, idx, update, before,
                   result, redelivered, calls, replies, raised, newest,
                   increasing, polls, slept, transport, fetched, dispatched,
                   lost, closed, cut, restarted, seen_before>>

\* lines 261-262: after the loop
run_aclose ==
    /\ pc = "closing"
    /\ closed' = TRUE
    /\ pc' = "returned"
    /\ UNCHANGED <<last_update_id, offset, updates, idx, update, text,
                   before, result, redelivered, calls, replies, raised,
                   newest, increasing, polls, slept, transport, fetched,
                   dispatched, lost, cut, restarted, seen_before>>

\* lines 265-272 and 39-41: the process is gone (run has returned, an
\* exception has left it, or the process was killed where it stood) and is
\* started again: a new TelegramPoller, whose last_update_id is 0.  The
\* histories start again with it; seen_before keeps what the first process
\* had been given.
restart ==
    /\ ~restarted
    /\ pc # "start"
    /\ polls < MaxPolls
    /\ restarted' = TRUE
    /\ seen_before' = newest
    /\ last_update_id' = 0
    /\ pc' = "start"
    /\ offset' = 0
    /\ updates' = <<>>
    /\ idx' = 0
    /\ update' = NoUpdate
    /\ text' = NoText
    /\ before' = 0
    /\ result' = "none"
    /\ redelivered' = FALSE
    /\ calls' = <<>>
    /\ replies' = <<>>
    /\ raised' = FALSE
    /\ newest' = 0
    /\ increasing' = TRUE
    /\ slept' = 0
    /\ transport' = "exact"
    /\ fetched' = <<>>
    /\ dispatched' = <<>>
    /\ lost' = 0
    /\ closed' = FALSE
    /\ cut' = "none"
    /\ UNCHANGED polls

Next ==
    \/ run_delete_webhook
    \/ get_updates_request
    \/ get_updates_response
    \/ process_update_enter
    \/ send_chat_action
    \/ send_to_databricks_endpoint
    \/ send_telegram_message
    \/ process_update_except
    \/ run_for_done
    \/ run_sleep

\* a run that no signal interrupts
Spec == Init /\ [][Next]_vars

NextInt ==
    \/ Next
    \/ interrupt_cancelled
    \/ interrupt_keyboard
    \/ interrupt_swallowed
    \/ run_aclose

\* a run that an interrupt may end
SpecInt == Init /\ [][NextInt]_vars

NextRestart ==
    \/ NextInt
    \/ restart

\* a process that may end and be started again, once
SpecRestart == Init /\ [][NextRestart]_vars

(***************************************************************************)
(* Properties.                                                             *)
(***************************************************************************)
\* m is the greatest element of the non-empty sequence ids
IsGreatest(m, ids) ==
    /\ \E i \in 1..Len(ids) : ids[i] = m
    /\ \A i \in 1..Len(ids) : ids[i] <= m

\* process_update has returned for update
Returned_from_update == pc = "for" /\ update.shape # "none"

\* process_update is running or has just returned for update
Handling == pc \in {"typing", "query", "send", "except"} \/ Returned_from_update

SendMessages == SelectSeq(calls, LAMBDA c : c.op = "sendMessage")

IsCommand(t) ==
    StartsWith(t, S_start) \/ StartsWith(t, S_help) \/ StartsWith(t, S_status)

\* C1: after a successful fetch, from the moment get_updates has returned,
\* while the batch is processed and until the next fetch answers, the cursor
\* is the greatest update_id of the batch when the batch is not empty and is
\* its value from before the fetch when the batch is empty.
C1_CursorIsBatchMax ==
    (result = "ok" /\ pc # "polling") =>
        IF updates # <<>>
        THEN IsGreatest(last_update_id, updates)
        ELSE last_update_id = before

\* C1 witness: a batch whose greatest id is not its last one has been
\* processed to its end.
C1_Witness ==
    /\ pc = "sleep"
    /\ result = "ok"
    /\ Len(updates) = 2
    /\ updates[1] > updates[2]
    /\ last_update_id = updates[1]

\* C2: a getUpdates request in flight carries offset = cursor + 1, so it asks
\* for no update id at or below the cursor; and when a fetch returns the
\* very list the fetch before it returned, it was requested with an offset
\* that is one more than the greatest id of that list.
C2_RequestAfterCursor ==
    /\ pc = "polling" => (offset = last_update_id + 1 /\ offset > before)
    /\ (redelivered /\ result = "ok") =>
           /\ IsGreatest(offset - 1, updates)
           /\ \A i \in 1..Len(updates) : updates[i] < offset

\* C2 witness: two fetches in a row returned the list of the one update 1,
\* and the second was requested with offset 2.
C2_Witness ==
    /\ redelivered
    /\ result = "ok"
    /\ updates = <<1>>
    /\ polls = 2
    /\ offset = 2

\* C3: the cursor never decreases.
C3_CursorNeverDecreases == [][last_update_id' >= last_update_id]_vars

\* C4: when the update ids arrive increasing, the sendMessage calls are made
\* in the order of the update ids that caused them.
C4_RepliesInOrder ==
    increasing =>
        \A i, j \in 1..Len(replies) : i < j => replies[i] <= replies[j]

\* C4 witness: replies were sent for three updates, the last of them from a
\* later batch than the first.
C4_Witness ==
    /\ increasing
    /\ Len(replies) >= 3
    /\ replies[1] < replies[2]
    /\ replies[2] < replies[Len(replies)]
    /\ polls = 2

\* C5: for an update whose text starts with /start, /help or /status no
\* typing indicator and no generation call is made, and the first sendMessage
\* call is the reply of that command, sent to the chat of the update.
C5_CommandsStayLocal ==
    (Handling /\ update.shape = "text" /\ IsCommand(update.text)) =>
        /\ pc \notin {"typing", "query"}
        /\ \A i \in 1..Len(calls) : calls[i].op = "sendMessage"
        /\ pc = "send" => calls = <<>>
        /\ pc # "send" =>
            /\ Len(calls) >= 1
            /\ calls[1].chat = update.chat
            /\ calls[1].text =
                 IF StartsWith(update.text, S_start) THEN WelcomeText
                 ELSE IF StartsWith(update.text, S_help) THEN HelpText
                 ELSE StatusText(last_update_id)

\* C5 witness: a /status update has been answered.
C5_Witness ==
    /\ Returned_from_update
    /\ update.text = S_status
    /\ Len(calls) = 1
    /\ calls[1].text.kind = "status"
    /\ calls[1].result = "ok"

\* C7: an update without a message, or whose message has no text, makes
\* process_update return at once: no outbound call is made for it, and the
\* step changes nothing but the position in the batch.
C7_NoTextNoCalls ==
    [][(pc = "for" /\ update'.shape \in {"nomsg", "notext"}) =>
          /\ pc' = "for"
          /\ idx' = idx + 1
          /\ calls' = <<>>
          /\ text' = NoText
          /\ UNCHANGED <<last_update_id, offset, updates, replies, before,
                         result, polls>>]_vars

\* C7 witness: a message without text has been dispatched.
C7_Witness ==
    /\ Returned_from_update
    /\ update.shape = "notext"
    /\ calls = <<>>

Queries == SelectSeq(calls, LAMBDA c : c.op = "query")

\* process_update is at or past its first sendMessage call for a free text
\* whose generation call ended the way res says
Generated(res) ==
    /\ Handling
    /\ pc # "typing"
    /\ pc # "query"
    /\ update.shape = "text"
    /\ ~IsCommand(update.text)
    /\ Len(Queries) >= 1
    /\ Queries[1].result \in res

\* the reason send_to_databricks_endpoint puts in its apology
Reason(c) == IF c.result = "raises" THEN c.text.val ELSE "TypeError"

\* the sendMessage calls of an update that process_update has returned
\* for: one call, or, when that call raised, the generic error message sent
\* after it to the same chat
OneReplyUnlessRaised ==
    /\ Len(SendMessages) \in {1, 2}
    /\ Len(SendMessages) = 2 <=> SendMessages[1].result = "raises"
    /\ Len(SendMessages) = 2 =>
        /\ SendMessages[2].text = GenericErrorText
        /\ SendMessages[2].chat = update.chat

\* C6, as the claim states it: when the generation call failed, exactly one
\* reply, the apology, is delivered to the chat of the update.
C6_Original ==
    (Returned_from_update /\ Generated({"raises", "null_content"})) =>
        /\ Len(SendMessages) = 1
        /\ SendMessages[1].chat = update.chat
        /\ SendMessages[1].text = SorryText(Reason(Queries[1]))
        /\ SendMessages[1].result = "ok"

\* C6, amended: when the generation call failed, the first sendMessage call
\* of the update goes to its chat with the apology that embeds the reason,
\* the generation call is not repeated, no exception leaves process_update,
\* and process_update returns with one sendMessage call made, or with two
\* when the first one raised: then the second is the generic error message.
C6_ApologyOnFailure ==
    Generated({"raises", "null_content"}) =>
        /\ pc \in {"send", "except", "for"}
        /\ Len(Queries) = 1
        /\ pc = "send" =>
            /\ SendMessages = <<>>
            /\ text = SorryText(Reason(Queries[1]))
        /\ pc # "send" =>
            /\ SendMessages[1].chat = update.chat
            /\ SendMessages[1].text = SorryText(Reason(Queries[1]))
        /\ pc = "except" =>
            /\ Len(SendMessages) = 1
            /\ SendMessages[1].result = "raises"
        /\ Returned_from_update => OneReplyUnlessRaised

\* C6 witness: the endpoint raised, and the apology naming the reason was
\* the one reply sent.
C6_Witness ==
    /\ Returned_from_update
    /\ Generated({"raises"})
    /\ Len(SendMessages) = 1
    /\ SendMessages[1].text = SorryText("timeout")
    /\ SendMessages[1].result = "ok"

IsStatus == Handling /\ update.shape = "text" /\ StartsWith(update.text, S_status)

\* C8, as the claim states it: a /status update gets exactly one reply.
C8_Original ==
    (Returned_from_update /\ IsStatus) =>
        /\ Len(SendMessages) = 1
        /\ SendMessages[1].chat = update.chat
        /\ SendMessages[1].text.kind = "status"
        /\ SendMessages[1].text.val = "Polling"
        /\ SendMessages[1].text.num = last_update_id

\* C8, amended: the first sendMessage call of a /status update goes to its
\* chat, names the mode Polling and reports the cursor, which is the id of
\* the update when the batch holds nothing else; it is the only sendMessage
\* call of the update unless it raised, and then the generic error message
\* follows.
C8_StatusReportsCursor ==
    IsStatus =>
        /\ pc \in {"send", "except", "for"}
        /\ Len(Queries) = 0
        /\ pc = "send" =>
            /\ SendMessages = <<>>
            /\ text.kind = "status"
            /\ text.val = "Polling"
            /\ text.num = last_update_id
        /\ pc # "send" =>
            /\ SendMessages[1].chat = update.chat
            /\ SendMessages[1].text.kind = "status"
            /\ SendMessages[1].text.val = "Polling"
            /\ SendMessages[1].text.num = last_update_id
            /\ SendMessages[1].text.num >= update.update_id
            /\ Len(updates) = 1 => SendMessages[1].text.num = update.update_id
        /\ Returned_from_update => OneReplyUnlessRaised

\* C8 witness: the only update of a batch is /status from chat C1, and its
\* one reply reports the id of that update.
C8_Witness ==
    /\ Returned_from_update
    /\ IsStatus
    /\ update.text = S_status
    /\ update.chat = "C1"
    /\ Len(updates) = 1
    /\ Len(SendMessages) = 1
    /\ SendMessages[1].chat = "C1"
    /\ SendMessages[1].text.num = update.update_id
    /\ SendMessages[1].result = "ok"

\* C9, as the claim states it: when the endpoint returned content t for a
\* free text, exactly one reply, t, is delivered to the chat of the update.
C9_Original ==
    (Returned_from_update /\ Generated({"content"})) =>
        /\ Len(Queries) = 1
        /\ Len(SendMessages) = 1
        /\ SendMessages[1].chat = update.chat
        /\ SendMessages[1].text = ModelText(Queries[1].text.val)
        /\ SendMessages[1].result = "ok"

\* C9, amended: when the endpoint returned content t for a free text, the
\* generation call was made once, the first sendMessage call of the update
\* goes to its chat with t unchanged, and process_update returns with that
\* one sendMessage call made, or with two when it raised: then the second
\* is the generic error message.
C9_AnswerPassedOn ==
    Generated({"content"}) =>
        /\ Len(Queries) = 1
        /\ Len(SelectSeq(calls, LAMBDA c : c.op = "sendChatAction")) = 1
        /\ pc = "send" =>
            /\ SendMessages = <<>>
            /\ text = ModelText(Queries[1].text.val)
        /\ pc # "send" =>
            /\ SendMessages[1].chat = update.chat
            /\ SendMessages[1].text = ModelText(Queries[1].text.val)
        /\ Returned_from_update => OneReplyUnlessRaised

\* C9 witness: hello from chat C1 was answered "hi there", once.
C9_Witness ==
    /\ Returned_from_update
    /\ update.text = S_hello
    /\ update.chat = "C1"
    /\ Len(Queries) = 1
    /\ Len(SendMessages) = 1
    /\ SendMessages[1] = Call("sendMessage", "C1", ModelText("hi there"), "ok")

\* C10: an exception raised while an update is handled leaves the for loop
\* at the same update of the same batch, so run leaves the loop only when
\* every update of the batch has been dispatched, and then sleeps and polls
\* again.
C10_BatchSurvivesExceptions ==
    /\ pc \in {"start", "loop", "polling", "for", "typing", "query", "send",
               "except", "sleep"}
    /\ pc \in {"sleep", "loop", "polling"} => idx = Len(updates)
    /\ pc \in {"for", "typing", "query", "send", "except"} => idx <= Len(updates)
    /\ Handling =>
        /\ idx >= 1
        /\ update.update_id = updates[idx]

\* C10 witness: handling the first update of a batch raised an exception
\* and the second update is being handled.
C10_Witness ==
    /\ raised
    /\ Len(updates) = 2
    /\ idx = 2
    /\ pc = "send"
    /\ calls = <<>>

\* get_updates has returned without a list of updates from the transport:
\* an exception, a non-2xx status, a body that is not JSON or lacks a field,
\* or an answer that is not ok
FetchFailed == result \in {"not_ok", "http_error", "malformed"}

\* C15: when the latest get_updates call failed and run is back at the top
\* of its loop, about to fetch again, the sleep it has just taken is the
\* 5 second sleep of the error handler and not the poll interval.
C15_CooldownAfterFailedFetch ==
    (pc = "loop" /\ polls >= 1 /\ FetchFailed) => slept = ErrorSleep

\* C17: run is about to take the poll-interval sleep of line 252 only when
\* the list get_updates returned was empty; after a non-empty batch it goes
\* to the next get_updates call without that sleep.
C17_SleepOnlyWhenEmpty == pc = "sleep" => updates = <<>>

\* send_to_databricks_endpoint has just returned to line 204 of
\* process_update; text is the value it returned
QueryReturned == pc = "send" /\ Len(Queries) = 1 /\ Len(SendMessages) = 0

\* the returned value tells a failure and gives a reason a person can read
IsFailureText(t) == t.kind \in {"sorry", "no_choice"}

\* C19: send_to_databricks_endpoint returns to its caller whatever the
\* endpoint did; an exception of the call, an empty list of choices, and a
\* first choice whose content is None or "" all make it return a failure
\* text with a reason; what it returns as the model's answer is never empty.
C19_BadOutcomesAreFailures ==
    QueryReturned =>
        /\ (Queries[1].result # "content" \/ Queries[1].text.val = "")
                => IsFailureText(text)
        /\ text.kind = "model" => text.val # ""

\* C16: a get_updates call that fails leaves last_update_id as it was,
\* returns no update and makes no call to a chat or to the endpoint; from
\* there run sleeps and calls get_updates again, and until that request is
\* sent no update is dispatched, no call is made, the cursor keeps its
\* value, and the request carries the offset of the failed one.
C16_FailedFetchChangesNothing ==
    [][/\ (pc = "polling" /\ pc' # "polling" /\ FetchFailed') =>
            /\ last_update_id' = last_update_id
            /\ updates' = <<>>
            /\ calls' = <<>>
            /\ replies' = replies
            /\ pc' = "sleep"
       /\ (FetchFailed /\ pc \in {"sleep", "loop"} /\ polls >= 1) =>
            /\ UNCHANGED <<last_update_id, updates, idx, update, calls,
                           replies>>
            /\ pc' \in {"loop", "polling"}
            /\ pc' = "polling" => offset' = offset
      ]_vars

\* C16 witness: the first get_updates call failed, run slept, and the
\* second request is out with the offset of the first.
C16_Witness ==
    /\ pc = "polling"
    /\ polls = 2
    /\ FetchFailed
    /\ offset = 1
    /\ last_update_id = 0
    /\ slept = POLL_INTERVAL

\* the updates of the latest batch the for loop has not taken yet
NotYetTaken == SubSeq(updates, idx + 1, Len(updates))

\* every update get_updates has returned was passed to process_update once,
\* in the order returned, or is an update of the running batch the for loop
\* has still to take
EachReturnedOnce ==
    /\ dispatched \o NotYetTaken = fetched
    /\ pc \in {"sleep", "loop", "polling"} => dispatched = fetched

\* C13 as stated: while every getUpdates answer carries only ids at or above
\* the offset of its request, every update returned is passed to
\* process_update once and no update id is passed twice.
C13_Original ==
    transport # "stale" => (EachReturnedOnce /\ NoRepeat(dispatched))

\* C13: while every getUpdates answer carries only ids at or above the
\* offset of its request and lists no update twice, every update returned is
\* passed to process_update once, none is skipped when the batch is done,
\* and no update id is passed twice, whatever fetches failed and whatever
\* exceptions the updates raised.  When an answer lists an update twice it
\* is passed once for each time it is listed.
C13_DispatchedExactlyOnce ==
    /\ transport # "stale" => EachReturnedOnce
    /\ transport = "exact" => NoRepeat(dispatched)

\* C13 witness: two answers brought updates 1, 2 and 3, handling one of the
\* latest batch raised an exception, and all three have been dispatched.
C13_Witness ==
    /\ transport = "exact"
    /\ polls = 2
    /\ pc = "sleep"
    /\ raised
    /\ dispatched = <<1, 2, 3>>
    /\ Len(updates) < 3

\* C14: the cursor is the greatest update_id of the batch from before its
\* first update is dispatched, so an update whose handling failed is never
\* above the cursor, neither while its batch is handled nor when the next
\* get_updates call has returned, and the requests that follow carry an
\* offset above it.
C14_FailedNeverRequestedAgain ==
    /\ []((result = "ok" /\ updates # <<>>
            /\ pc \in {"for", "typing", "query", "send", "except"})
                => last_update_id = MaxUpdateId(updates))
    /\ [](lost <= last_update_id)
    /\ [](pc = "polling" => offset > lost)
    /\ [][(pc = "polling" /\ pc' \in {"for", "sleep"})
            => lost < RequestOffset(last_update_id')]_vars

\* the positions of run inside its while loop
LoopPcs == {"loop", "polling", "for", "typing", "query", "send", "except", "sleep"}

\* the steps process_update has still to take for the update it handles
Rank(p) ==
    CASE p = "typing" -> 4
      [] p = "query" -> 3
      [] p = "send" -> 2
      [] p = "except" -> 1
      [] OTHER -> 0

\* a bound on the steps run takes from here to its next get_updates call
ToNextFetch ==
    IF pc = "loop" THEN 0
    ELSE IF pc = "sleep" THEN 1
    ELSE 2 + 5 * (Len(updates) - idx) + Rank(pc)

\* C11: as long as no interrupt has ended the loop, run is inside its while
\* loop (or before it), whatever get_updates, the endpoint, sendMessage and
\* the updates themselves did; it always has a next step; and, once
\* get_updates has returned, every step that is not an interrupt brings it
\* closer to the next get_updates call.  Only an interrupt puts run after
\* the loop or out of it.  (The model stops calling get_updates after
\* MaxPolls calls.)
C11_OnlyInterruptEndsLoop ==
    /\ [](cut = "none" => pc \in LoopPcs \cup {"start"})
    /\ []((cut = "none" /\ ~(pc = "loop" /\ polls = MaxPolls)) => ENABLED Next)
    /\ [][(cut' = "none" /\ pc \in LoopPcs \ {"loop", "polling"})
            => ToNextFetch' < ToNextFetch]_vars

\* C11 witness: the first get_updates call failed, in the batch of the
\* second an update raised an exception and a sendMessage call failed, and
\* run is at the top of its loop again.
C11_Witness ==
    /\ cut = "none"
    /\ pc = "loop"
    /\ polls = 2
    /\ before = 0
    /\ raised
    /\ lost > 0
    /\ slept = POLL_INTERVAL
    /\ ~restarted

\* run has stopped: it has returned or an exception has left it
Stopped == pc \in {"returned", "cancelled"}

\* C12: whenever run has stopped, whatever it was suspended in when the
\* interrupt came, client.aclose() has been executed.
C12_ClientClosedOnEveryExit == Stopped => closed

\* C18: an interrupt ends the loop only where no update is being handled:
\* run was fetching, sleeping or at the top of its loop, and every update of
\* the latest batch had been dispatched and handled to its end.
C18_InterruptOnlyBetweenIterations ==
    cut # "none" =>
        /\ cut \in {"loop", "polling", "sleep"}
        /\ idx = Len(updates)

\* C20: in a process started after another one has ended, the first
\* get_updates request asks only for updates newer than every update the
\* first process had been given, and no update at or below those is
\* dispatched.
C20_RestartAsksOnlyForNewer ==
    restarted =>
        /\ (pc = "polling" /\ result = "none") => offset > seen_before
        /\ Handling => update.update_id > seen_before

=============================================================================
